---------------------------- MODULE Spec2Model ----------------------------
(***************************************************************************)
(* Boot-image import coordination of the cluster controller               *)
(* (provisioningserver/rpc/boot_images.py).                                *)
(*                                                                         *)
(* import_boot_images, is_import_boot_images_running and the completion    *)
(* of a deferToThread job run on the Twisted reactor thread, so each is    *)
(* one atomic step.  _run_import runs on a pool thread; its steps          *)
(* interleave with the reactor's.                                          *)
(***************************************************************************)
EXTENDS Naturals, Sequences, FiniteSets, TLC

\* ------------------------------------------------------------------ bounds
NumCallers == 2
MaxSources == 2
MaxMacLen == 3
MaxInterfaces == 2

Callers == 1..NumCallers

\* ------------------------------------------------------------------ values
\* Python's None, for an argument that was not given and for url.hostname.
None == "<None>"

EnvVars == {"GNUPGHOME", "http_proxy", "https_proxy", "no_proxy"}

\* The source URLs the callers draw from: a plain host, the same host in
\* another spelling (upper case, with a port), a loopback host, and a URL
\* without a network location.  HostURLs adds a URL whose network location
\* is a port without a host.
URLs == { "http://a.example/images/",
          "http://A.EXAMPLE:8080/daily/",
          "http://localhost:5240/images/",
          "file:///srv/images/" }

HostURLs == URLs \cup { "http://:8080/images/" }

Proxies == { None, "http://proxy.example:3128/" }

\* urlparse(url).hostname (Python 2): the network location after any '@',
\* up to its first ':', lower-cased; None only when the network location is
\* empty, so ':8080' gives the empty string.
urlparse_hostname(url) ==
    CASE url = "http://a.example/images/"      -> "a.example"
      [] url = "http://A.EXAMPLE:8080/daily/"  -> "a.example"
      [] url = "http://localhost:5240/images/" -> "localhost"
      [] url = "file:///srv/images/"           -> None
      [] url = "http://:8080/images/"          -> ""

\* A source is a dict with a 'url' (the selections are opaque here).
SourceDicts == { [url |-> u] : u \in URLs }

SeqsUpTo(S, n) == UNION { [1..k -> S] : k \in 0..n }

SourceLists == SeqsUpTo(SourceDicts, MaxSources)

\* All the orders in which a set can be iterated.
Perms(S) == { p \in [1..Cardinality(S) -> S] :
                \A i, j \in 1..Cardinality(S) : p[i] = p[j] => i = j }

Range(s) == { s[i] : i \in DOMAIN s }

RECURSIVE join(_, _)
\* sep.join(seq)
join(sep, seq) ==
    IF Len(seq) = 0 THEN ""
    ELSE IF Len(seq) = 1 THEN seq[1]
    ELSE seq[1] \o sep \o join(sep, Tail(seq))

\* ------------------------------------------------------- get_hosts_from_sources
get_hosts_from_sources(sources) ==
    { urlparse_hostname(sources[i].url) : i \in DOMAIN sources } \ { None }

\* --------------------------------------------------------------- environment
EmptyEnv == [v \in {} |-> ""]

\* os.environ.update(variables)
env_update(e, variables) ==
    [v \in DOMAIN e \cup DOMAIN variables |->
        IF v \in DOMAIN variables THEN variables[v] ELSE e[v]]

\* What environment_variables saves on entry: the previous values of the
\* variables it overrides (a variable that was absent has no saved value).
env_prior(e, variables) ==
    [v \in DOMAIN e \cap DOMAIN variables |-> e[v]]

\* What environment_variables does on exit: every overridden variable gets
\* its saved value back, or is removed when it had none.
env_restore(e, variables, prior) ==
    [v \in (DOMAIN e \ DOMAIN variables) \cup DOMAIN prior |->
        IF v \in DOMAIN prior THEN prior[v] ELSE e[v]]

\* The environments a process may start with.
BaselineEnvs ==
    { EmptyEnv,
      [v \in {"http_proxy", "no_proxy"} |->
          IF v = "http_proxy" THEN "http://site-proxy:8000/" ELSE "intranet"],
      [v \in EnvVars |->
          CASE v = "GNUPGHOME"   -> "/root/.gnupg"
            [] v = "http_proxy"  -> "http://site-proxy:8000/"
            [] v = "https_proxy" -> "http://site-proxy:8000/"
            [] v = "no_proxy"    -> "intranet"] }


\* ------------------------------------------------------------------- state
VARIABLES
    env,         \* os.environ, as far as the four variables go
    locked,      \* concurrency.boot_images.locked
    waiting,     \* concurrency.boot_images.waiting: callers queued on the lock
    call,        \* per caller: its import_boot_images call
    job,         \* per caller: the deferToThread job started for its call
    handle,      \* per caller: the Deferred its call returned
    gpghome,     \* what get_maas_user_gpghome() gives in this process
    raceWinner,  \* history: the caller whose job holds the lock, 0 if none
    contenders,  \* history: the calls that were pending when raceWinner won
    first,       \* history: what the first call of the process returned
    reply,       \* the answer to the last list_boot_images or
                 \* is_import_boot_images_running request, NoReply if none
    preseed      \* the call of a function under study, with its arguments
                 \* and what it returned

vars == << env, locked, waiting, call, job, handle, gpghome,
           raceWinner, contenders, first, reply, preseed >>

\* What the import coordination leaves alone.
aside == << reply, preseed >>

NoReply == [op |-> "none"]

NoPreseed == [op |-> "none"]

Unresolvable == "<unresolvable>"

NoCall == [st |-> "idle", ret |-> "-", held |-> FALSE]

\* A job: where it stands (pc), the callbacks on its Deferred, the arguments
\* of _run_import and its local variables; pre_env, engine and invoked are
\* history: the environment the job found when it began, how import_images
\* ended ("-" as long as it has not), and the argument of each call of
\* import_images the job has made.
NoJob == [pc |-> "none", callbacks |-> {},
          sources |-> << >>, http_proxy |-> None, https_proxy |-> None,
          variables |-> EmptyEnv, prior |-> EmptyEnv, pre_env |-> EmptyEnv,
          no_proxy_hosts |-> << >>, engine |-> "-", invoked |-> << >>]

\* A job is in flight from the moment deferToThread is called until the
\* reactor has delivered its result.
InFlight == {"scheduled", "importing", "returned", "raised"}

JobsInFlight == { c \in Callers : job[c].pc \in InFlight }

Init ==
    /\ env \in BaselineEnvs
    /\ locked = FALSE
    /\ waiting = << >>
    /\ call = [c \in Callers |-> NoCall]
    /\ job = [c \in Callers |-> NoJob]
    /\ handle = [c \in Callers |-> "none"]
    /\ gpghome = "/var/lib/maas/gnupg"
    /\ raceWinner = 0
    /\ contenders = {}
    /\ first = "none"
    /\ reply = NoReply
    /\ preseed = NoPreseed

\* ------------------------------------------------------------ the callers
\* A caller (cluster controller, API) issues import_boot_images; the request
\* waits for the reactor to dispatch it.
Arrive(c) ==
    /\ call[c].st = "idle"
    /\ call' = [call EXCEPT ![c].st = "arrived"]
    /\ UNCHANGED << env, locked, waiting, job, handle, gpghome,
                    raceWinner, contenders, first >>
    /\ UNCHANGED aside

\* A caller drops the result of a call that is over: a skipped call at once,
\* a started one after its Deferred has fired.
Forget(c) ==
    /\ call[c].st = "returned"
    /\ call[c].ret = "None" \/ handle[c] \in {"succeeded", "failed"}
    /\ call' = [call EXCEPT ![c] = NoCall]
    /\ handle' = [handle EXCEPT ![c] = "none"]
    /\ contenders' = contenders \ {c}
    /\ UNCHANGED << env, locked, waiting, job, gpghome, raceWinner, first >>
    /\ UNCHANGED aside

\* History of the calls: the first return value of the process, and the
\* calls that were pending together when a call took the free lock.
ObserveCall(c, ret) ==
    /\ first' = IF first = "none" THEN ret ELSE first
    /\ IF ~locked /\ ret = "Deferred" /\ raceWinner = 0
       THEN /\ raceWinner' = c
            /\ contenders' = { d \in Callers : call[d].st = "arrived" }
       ELSE UNCHANGED << raceWinner, contenders >>

\* ---------------------------------------------------------- the lock
\* deferToThread(_run_import, sources, http_proxy=..., https_proxy=...):
\* the job is handed to the thread pool; `callbacks` are the callbacks on
\* its Deferred.
deferToThread(callbacks, sources, http_proxy, https_proxy) ==
    [NoJob EXCEPT !.pc = "scheduled", !.callbacks = callbacks,
                  !.sources = sources, !.http_proxy = http_proxy,
                  !.https_proxy = https_proxy]

\* lock.run(deferToThread, _run_import, ...) on a DeferredLock: a free lock
\* is taken and the function called at once, with the release added to its
\* Deferred; on a held lock the call is queued until the lock is released.
DeferredLock_run(c, sources, http_proxy, https_proxy) ==
    LET j == deferToThread({"_releaseAndReturn"}, sources, http_proxy, https_proxy)
    IN  IF ~locked
        THEN /\ locked' = TRUE
             /\ job' = [job EXCEPT ![c] = j]
             /\ UNCHANGED waiting
        ELSE /\ waiting' = Append(waiting, c)
             /\ job' = [job EXCEPT ![c] = [j EXCEPT !.pc = "waiting"]]
             /\ UNCHANGED locked

\* ---------------------------------------------------- import_boot_images
\* What a call returns: the Deferred of lock.run, or None when it skipped.
\* held is history: whether the lock was held when the call was dispatched.
Returned(ret) == [st |-> "returned", ret |-> ret, held |-> locked]

\* Variants of import_boot_images with a slip in the use of the lock.
\* Without the test of lock.locked: every call goes to lock.run.
import_boot_images_unguarded(c) ==
    /\ call[c].st = "arrived"
    /\ \E sources \in SourceLists, http_proxy \in Proxies, https_proxy \in Proxies :
          /\ DeferredLock_run(c, sources, http_proxy, https_proxy)
          /\ call' = [call EXCEPT ![c] = Returned("Deferred")]
          /\ handle' = [handle EXCEPT ![c] = "pending"]
          /\ ObserveCall(c, "Deferred")
    /\ UNCHANGED << env, gpghome >>
    /\ UNCHANGED aside

\* With the test, but deferToThread called directly instead of lock.run.
import_boot_images_nolock(c) ==
    /\ call[c].st = "arrived"
    /\ IF ~locked
       THEN \E sources \in SourceLists, http_proxy \in Proxies, https_proxy \in Proxies :
               /\ job' = [job EXCEPT ![c] =
                            deferToThread({}, sources, http_proxy, https_proxy)]
               /\ call' = [call EXCEPT ![c] = Returned("Deferred")]
               /\ handle' = [handle EXCEPT ![c] = "pending"]
               /\ ObserveCall(c, "Deferred")
               /\ UNCHANGED << locked, waiting >>
       ELSE /\ call' = [call EXCEPT ![c] = Returned("None")]
            /\ ObserveCall(c, "None")
            /\ UNCHANGED << locked, waiting, job, handle >>
    /\ UNCHANGED << env, gpghome >>
    /\ UNCHANGED aside

\* Variant: a call that finds the lock held releases it before skipping.
import_boot_images_preempting(c) ==
    /\ call[c].st = "arrived"
    /\ IF ~locked
       THEN \E sources \in SourceLists, http_proxy \in Proxies, https_proxy \in Proxies :
               /\ DeferredLock_run(c, sources, http_proxy, https_proxy)
               /\ call' = [call EXCEPT ![c] = Returned("Deferred")]
               /\ handle' = [handle EXCEPT ![c] = "pending"]
               /\ ObserveCall(c, "Deferred")
       ELSE /\ call' = [call EXCEPT ![c] = Returned("None")]
            /\ ObserveCall(c, "None")
            /\ locked' = FALSE
            /\ UNCHANGED << waiting, job, handle >>
    /\ UNCHANGED << env, gpghome >>
    /\ UNCHANGED aside

\* With lock.acquire() and deferToThread, but no release on the job's Deferred.
import_boot_images_norelease(c) ==
    /\ call[c].st = "arrived"
    /\ IF ~locked
       THEN \E sources \in SourceLists, http_proxy \in Proxies, https_proxy \in Proxies :
               /\ locked' = TRUE
               /\ job' = [job EXCEPT ![c] =
                            deferToThread({}, sources, http_proxy, https_proxy)]
               /\ call' = [call EXCEPT ![c] = Returned("Deferred")]
               /\ handle' = [handle EXCEPT ![c] = "pending"]
               /\ ObserveCall(c, "Deferred")
               /\ UNCHANGED waiting
       ELSE /\ call' = [call EXCEPT ![c] = Returned("None")]
            /\ ObserveCall(c, "None")
            /\ UNCHANGED << locked, waiting, job, handle >>
    /\ UNCHANGED << env, gpghome >>
    /\ UNCHANGED aside

\* With the test inverted: `if lock.locked:`.
import_boot_images_inverted(c) ==
    /\ call[c].st = "arrived"
    /\ IF locked
       THEN \E sources \in SourceLists, http_proxy \in Proxies, https_proxy \in Proxies :
               /\ DeferredLock_run(c, sources, http_proxy, https_proxy)
               /\ call' = [call EXCEPT ![c] = Returned("Deferred")]
               /\ handle' = [handle EXCEPT ![c] = "pending"]
               /\ ObserveCall(c, "Deferred")
       ELSE /\ call' = [call EXCEPT ![c] = Returned("None")]
            /\ ObserveCall(c, "None")
            /\ UNCHANGED << locked, waiting, job, handle >>
    /\ UNCHANGED << env, gpghome >>
    /\ UNCHANGED aside

\* With _run_import called in place, under the lock, instead of being
\* deferred to a thread: the call returns when import_images has ended.
import_boot_images_blocking(c) ==
    /\ call[c].st = "arrived"
    /\ IF ~locked
       THEN \E sources \in SourceLists, http_proxy \in Proxies, https_proxy \in Proxies :
            \E outcome \in {"returned", "raised"} :
               /\ locked' = TRUE
               /\ job' = [job EXCEPT ![c] =
                            [deferToThread({"_releaseAndReturn"},
                                           sources, http_proxy, https_proxy)
                                EXCEPT !.pc = outcome, !.engine = outcome,
                                       !.invoked = << sources >>]]
               /\ call' = [call EXCEPT ![c] = Returned("Deferred")]
               /\ handle' = [handle EXCEPT ![c] = "pending"]
               /\ ObserveCall(c, "Deferred")
               /\ UNCHANGED waiting
       ELSE /\ call' = [call EXCEPT ![c] = Returned("None")]
            /\ ObserveCall(c, "None")
            /\ UNCHANGED << locked, waiting, job, handle >>
    /\ UNCHANGED << env, gpghome >>
    /\ UNCHANGED aside

\* Lines 70-76.  The arguments are looked at only when the lock is free.
import_boot_images(c) ==
    /\ call[c].st = "arrived"
    /\ IF ~locked
       THEN \E sources \in SourceLists, http_proxy \in Proxies, https_proxy \in Proxies :
               /\ DeferredLock_run(c, sources, http_proxy, https_proxy)
               /\ call' = [call EXCEPT ![c] = Returned("Deferred")]
               /\ handle' = [handle EXCEPT ![c] = "pending"]
               /\ ObserveCall(c, "Deferred")
       ELSE /\ call' = [call EXCEPT ![c] = Returned("None")]
            /\ ObserveCall(c, "None")
            /\ UNCHANGED << locked, waiting, job, handle >>
    /\ UNCHANGED << env, gpghome >>
    /\ UNCHANGED aside

\* ------------------------------------------- is_import_boot_images_running
\* Variant: the negation slipped in.
is_import_boot_images_running_negated == ~locked

\* Lines 79-81.
is_import_boot_images_running == locked

\* ------------------------------------------------------------ _run_import
\* Lines 63-64: the loopback hosts, then the hosts of the sources in the
\* order in which list() iterates the set (`order`).
no_proxy_hosts(order) ==
    << "localhost", "127.0.0.1", "::1" >> \o order

\* Variant: the proxies are set without the `is not None` tests.
run_import_variables_untested(home, http_proxy, https_proxy, hosts) ==
    [v \in EnvVars |->
        CASE v = "GNUPGHOME"   -> home
          [] v = "http_proxy"  -> http_proxy
          [] v = "https_proxy" -> https_proxy
          [] v = "no_proxy"    -> join(",", hosts)]

run_import_variables(home, http_proxy, https_proxy, hosts) ==
    LET names == {"GNUPGHOME", "no_proxy"}
                 \cup (IF http_proxy # None THEN {"http_proxy"} ELSE {})
                 \cup (IF https_proxy # None THEN {"https_proxy"} ELSE {})
    IN  [v \in names |->
            CASE v = "GNUPGHOME"   -> home
              [] v = "http_proxy"  -> http_proxy
              [] v = "https_proxy" -> https_proxy
              [] v = "no_proxy"    -> join(",", hosts)]

\* Variant: the failure of get_maas_user_gpghome caught and its message
\* used as the credential home.
run_import_begin_unresolved(c) ==
    /\ job[c].pc = "scheduled"
    /\ \E order \in Perms(get_hosts_from_sources(job[c].sources)) :
          LET hosts == no_proxy_hosts(order)
              variables == run_import_variables(
                  gpghome, job[c].http_proxy, job[c].https_proxy, hosts)
          IN  /\ env' = env_update(env, variables)
              /\ job' = [job EXCEPT ![c].pc = "importing",
                                    ![c].variables = variables,
                                    ![c].prior = env_prior(env, variables),
                                    ![c].pre_env = env,
                                    ![c].no_proxy_hosts = hosts,
                                    ![c].invoked = << job[c].sources >>]
    /\ UNCHANGED << locked, waiting, call, handle, gpghome,
                    raceWinner, contenders, first >>
    /\ UNCHANGED aside

\* The pool thread starts _run_import: it resolves the credential home,
\* builds the overrides, enters environment_variables and calls
\* import_images with its sources (lines 55-67).
\* When the credential home does not resolve, the exception leaves
\* _run_import before anything is set.
run_import_begin(c) ==
    /\ job[c].pc = "scheduled"
    /\ IF gpghome = Unresolvable
       THEN /\ job' = [job EXCEPT ![c].pc = "raised"]
            /\ UNCHANGED env
       ELSE \E order \in Perms(get_hosts_from_sources(job[c].sources)) :
              LET hosts == no_proxy_hosts(order)
                  variables == run_import_variables(
                      gpghome, job[c].http_proxy, job[c].https_proxy, hosts)
              IN  /\ env' = env_update(env, variables)
                  /\ job' = [job EXCEPT ![c].pc = "importing",
                                        ![c].variables = variables,
                                        ![c].prior = env_prior(env, variables),
                                        ![c].pre_env = env,
                                        ![c].no_proxy_hosts = hosts,
                                        ![c].invoked = << job[c].sources >>]
    /\ UNCHANGED << locked, waiting, call, handle, gpghome,
                    raceWinner, contenders, first >>
    /\ UNCHANGED aside

\* boot_resources.import_images(sources): returns, or raises; an empty list
\* of sources is a no-op.
import_images(sources) ==
    IF Len(sources) = 0 THEN {"returned"} ELSE {"returned", "raised"}

\* Variant: the overrides applied with os.environ.update outside a with
\* block, so nothing is restored.
run_import_end_norestore(c) ==
    /\ job[c].pc = "importing"
    /\ \E outcome \in import_images(job[c].sources) :
          job' = [job EXCEPT ![c].pc = outcome, ![c].engine = outcome]
    /\ UNCHANGED << env, locked, waiting, call, handle, gpghome,
                    raceWinner, contenders, first >>
    /\ UNCHANGED aside

\* Variant: import_images called a second time when it raised.
run_import_end_retrying(c) ==
    /\ job[c].pc = "importing"
    /\ \E outcome \in import_images(job[c].sources) :
          IF outcome = "raised" /\ Len(job[c].invoked) < 2
          THEN /\ job' = [job EXCEPT ![c].invoked = Append(@, job[c].sources)]
               /\ UNCHANGED env
          ELSE /\ job' = [job EXCEPT ![c].pc = outcome, ![c].engine = outcome]
               /\ env' = env_restore(env, job[c].variables, job[c].prior)
    /\ UNCHANGED << locked, waiting, call, handle, gpghome,
                    raceWinner, contenders, first >>
    /\ UNCHANGED aside

\* Variant: the call of import_images wrapped in try/except, the exception
\* logged and dropped.
run_import_end_swallowing(c) ==
    /\ job[c].pc = "importing"
    /\ \E outcome \in import_images(job[c].sources) :
          job' = [job EXCEPT ![c].pc = "returned", ![c].engine = outcome]
    /\ env' = env_restore(env, job[c].variables, job[c].prior)
    /\ UNCHANGED << locked, waiting, call, handle, gpghome,
                    raceWinner, contenders, first >>
    /\ UNCHANGED aside

\* import_images ends and the with block is left (lines 66-67): the
\* environment is restored whether import_images returned or raised.
run_import_end(c) ==
    /\ job[c].pc = "importing"
    /\ \E outcome \in import_images(job[c].sources) :
          job' = [job EXCEPT ![c].pc = outcome, ![c].engine = outcome]
    /\ env' = env_restore(env, job[c].variables, job[c].prior)
    /\ UNCHANGED << locked, waiting, call, handle, gpghome,
                    raceWinner, contenders, first >>
    /\ UNCHANGED aside

\* ---------------------------------------------------- the job's completion
\* The reactor delivers the thread's result: the callbacks of the job's
\* Deferred run (the lock's release, which hands the lock to the first
\* queued call if there is one), then the caller's Deferred fires.
job_completed(c) ==
    /\ job[c].pc \in {"returned", "raised"}
    /\ handle' = [handle EXCEPT ![c] =
                    IF job[c].pc = "returned" THEN "succeeded" ELSE "failed"]
    /\ IF "_releaseAndReturn" \in job[c].callbacks
       THEN IF waiting = << >>
            THEN /\ locked' = FALSE
                 /\ job' = [job EXCEPT ![c] = NoJob]
                 /\ raceWinner' = 0
                 /\ contenders' = {}
                 /\ UNCHANGED waiting
            ELSE /\ waiting' = Tail(waiting)
                 /\ job' = [job EXCEPT
                        ![c] = NoJob,
                        ![Head(waiting)].pc = "scheduled"]
                 /\ UNCHANGED << locked, raceWinner, contenders >>
       ELSE /\ job' = [job EXCEPT ![c] = NoJob]
            /\ UNCHANGED << locked, waiting, raceWinner, contenders >>
    /\ UNCHANGED << env, call, gpghome, first >>
    /\ UNCHANGED aside

\* ------------------------------------------------------------ specification
Next ==
    \E c \in Callers :
        \/ Arrive(c)
        \/ import_boot_images(c)
        \/ run_import_begin(c)
        \/ run_import_end(c)
        \/ job_completed(c)
        \/ Forget(c)

Spec == Init /\ [][Next]_vars

\* A process whose credential home may fail to resolve.
InitAnyHome ==
    /\ env \in BaselineEnvs
    /\ "http_proxy" \in DOMAIN env
    /\ "GNUPGHOME" \notin DOMAIN env
    /\ locked = FALSE
    /\ waiting = << >>
    /\ call = [c \in Callers |-> NoCall]
    /\ job = [c \in Callers |-> NoJob]
    /\ handle = [c \in Callers |-> "none"]
    /\ gpghome \in {"/var/lib/maas/gnupg", Unresolvable}
    /\ raceWinner = 0
    /\ contenders = {}
    /\ first = "none"
    /\ reply = NoReply
    /\ preseed = NoPreseed

SpecAnyHome == InitAnyHome /\ [][Next]_vars

\* ------------------------------------------------- the read-only requests
\* What import coordination owns: everything but `reply` and `preseed`.
coordination == << env, locked, waiting, call, job, handle, gpghome,
                   raceWinner, contenders, first >>

\* The boot images a scan of the image store may find: none (an empty or
\* just-initialised store), or one.
Disks == { {},
           { [architecture |-> "amd64", subarchitecture |-> "generic",
              release |-> "trusty", label |-> "release", purpose |-> "install"] } }

\* tftppath.list_boot_images(resource_root): the images found on disk.
tftppath_list_boot_images(disk) == disk

\* Variant: the listing waits for the import lock, as if it ran under it.
list_boot_images_underlock ==
    /\ ~locked
    /\ \E disk \in Disks :
          reply' = [op |-> "list", result |-> tftppath_list_boot_images(disk),
                    held |-> locked]
    /\ UNCHANGED coordination
    /\ UNCHANGED preseed

\* Lines 33-36.  The store is read as it is at this moment; `held` is
\* history, whether an import held the lock when the listing was made.
list_boot_images ==
    /\ \E disk \in Disks :
          reply' = [op |-> "list", result |-> tftppath_list_boot_images(disk),
                    held |-> locked]
    /\ UNCHANGED coordination
    /\ UNCHANGED preseed

\* Variant: the query takes the lock to read it (lock.acquire()).
call_is_import_boot_images_running_acquiring ==
    /\ reply' = [op |-> "running", result |-> is_import_boot_images_running]
    /\ locked' = TRUE
    /\ UNCHANGED << env, waiting, call, job, handle, gpghome,
                    raceWinner, contenders, first >>
    /\ UNCHANGED preseed

\* A caller asks is_import_boot_images_running() (lines 79-81).
call_is_import_boot_images_running ==
    /\ reply' = [op |-> "running", result |-> is_import_boot_images_running]
    /\ UNCHANGED coordination
    /\ UNCHANGED preseed

\* The environment these specifications start with is the one that has
\* some of the four variables and lacks others.
InitServe ==
    /\ Init
    /\ "http_proxy" \in DOMAIN env
    /\ "GNUPGHOME" \notin DOMAIN env

\* Import coordination together with listings of the boot images.
NextList ==
    \/ \E c \in Callers :
        \/ Arrive(c)
        \/ import_boot_images(c)
        \/ run_import_begin(c)
        \/ run_import_end(c)
        \/ job_completed(c)
        \/ Forget(c)
    \/ list_boot_images

SpecList == InitServe /\ [][NextList]_vars

\* Import coordination together with the running query.
NextQuery ==
    \/ \E c \in Callers :
        \/ Arrive(c)
        \/ import_boot_images(c)
        \/ run_import_begin(c)
        \/ run_import_end(c)
        \/ job_completed(c)
        \/ Forget(c)
    \/ call_is_import_boot_images_running

SpecQuery == InitServe /\ [][NextQuery]_vars

\* ------------------------------------------------------ networking_preseed
\* Text that is taken apart (a MAC address as lshw or the database spells
\* it) is a sequence of characters; text that is only put together is a
\* string.
Whitespace == {" "}
Chars == {"a", "A", "0", " "}
MacSpellings == SeqsUpTo(Chars, MaxMacLen)

\* unicode.lower, one character
char_lower(ch) == IF ch = "A" THEN "a" ELSE ch

lower(s) == [i \in DOMAIN s |-> char_lower(s[i])]

RECURSIVE lstrip(_)
lstrip(s) ==
    IF s # << >> /\ Head(s) \in Whitespace THEN lstrip(Tail(s)) ELSE s

RECURSIVE rstrip(_)
rstrip(s) ==
    IF s # << >> /\ s[Len(s)] \in Whitespace
    THEN rstrip(SubSeq(s, 1, Len(s) - 1))
    ELSE s

strip(s) == rstrip(lstrip(s))

\* Variant: case folded, surrounding whitespace kept.
normalise_mac_unstripped(mac) == lower(mac)

normalise_mac(mac) == lower(strip(mac))

\* unicode(mac) of a MACAddress model object is the address as stored.
extract_mac_string(mac) == normalise_mac(mac)

\* netaddr.IPAddress: an address is known by its canonical text, and its
\* version follows from it.
IPAddress(ip) ==
    CASE ip = "2001:DB8::5" -> "2001:db8::5"
      [] ip = "2001:DB8::1" -> "2001:db8::1"
      [] OTHER -> ip

ip_version(ip) == IF ip \in {"10.0.0.5", "10.0.0.1"} THEN 4 ELSE 6

\* defaultdict(set): a function on the keys present; a missing key reads as
\* the empty set.
defaultdict == << >>

defaultdict_getitem(mapping, key) ==
    IF key \in DOMAIN mapping THEN mapping[key] ELSE {}

\* What mapping[key] leaves behind: a missing key is inserted with the
\* default, the empty set.
defaultdict_after_getitem(mapping, key) ==
    [k \in DOMAIN mapping \cup {key} |-> defaultdict_getitem(mapping, k)]

\* Variant: mapping[mac] = {ip} instead of mapping[mac].add(ip).
add_ip_to_mapping_overwriting(mapping, macaddress, ip) ==
    IF ip \in {None, ""}
    THEN mapping
    ELSE LET mac == extract_mac_string(macaddress)
         IN  [k \in DOMAIN mapping \cup {mac} |->
                 IF k = mac THEN {IPAddress(ip)} ELSE mapping[k]]

add_ip_to_mapping(mapping, macaddress, ip) ==
    IF ip \in {None, ""}
    THEN mapping
    ELSE LET mac == extract_mac_string(macaddress)
         IN  [k \in DOMAIN mapping \cup {mac} |->
                 IF k = mac
                 THEN defaultdict_getitem(mapping, k) \cup {IPAddress(ip)}
                 ELSE mapping[k]]

\* The possible returns: the first address of the version in the set's
\* iteration order, which is any of them; None when there is none.
extract_ip(mapping, mac, ip_version_wanted) ==
    LET found == { ip \in defaultdict_getitem(mapping, mac) :
                      ip_version(ip) = ip_version_wanted }
    IN  IF found = {} THEN {None} ELSE found

\* The loops of map_static_ips and map_gateways over (MAC, address) pairs.
RECURSIVE add_all_to_mapping(_, _)
add_all_to_mapping(mapping, pairs) ==
    IF pairs = {}
    THEN mapping
    ELSE LET p == CHOOSE p \in pairs : TRUE
         IN  add_all_to_mapping(add_ip_to_mapping(mapping, p[1], p[2]),
                                pairs \ {p})

\* node.static: the (MAC, ip) pairs of the node's StaticIPAddress rows.
map_static_ips(node) == add_all_to_mapping(defaultdict, node.static)

\* node.cluster_interfaces[mac]: what mac.get_cluster_interfaces() returns.
map_gateways(node) ==
    add_all_to_mapping(defaultdict,
        UNION { { << mac, cluster_interface.router_ip >> :
                    cluster_interface \in
                        { ci \in node.cluster_interfaces[mac] :
                             ci.manages_static_range } } :
                mac \in DOMAIN node.cluster_interfaces })

has_static_ipv6_address(mapping) ==
    \E mac \in DOMAIN mapping : \E ip \in mapping[mac] : ip_version(ip) = 6

\* node.lshw: the network elements of the node's lshw output, each with the
\* texts of its logicalname and serial children; a node without probed
\* details has none.  The pairs extract_network_interface_data returns with
\* a None are the ones dropped.
extract_network_interfaces(node) ==
    LET present == SelectSeq(node.lshw,
                     LAMBDA e : e.logicalname # << >> /\ e.serial # << >>)
    IN  [i \in DOMAIN present |->
            << present[i].logicalname[1], normalise_mac(present[i].serial[1]) >>]

compose_debian_network_interfaces_ipv4_stanza(interface) ==
    "iface " \o interface \o " inet dhcp"

\* Variant: the gateway argument ignored.
compose_debian_network_interfaces_ipv6_stanza_nogateway(interface, ip, gateway) ==
    join("\n", << "iface " \o interface \o " inet6 static",
                  "\tnetmask 64",
                  "\taddress " \o ip >>)

compose_debian_network_interfaces_ipv6_stanza(interface, ip, gateway) ==
    join("\n", << "iface " \o interface \o " inet6 static",
                  "\tnetmask 64",
                  "\taddress " \o ip >>
               \o (IF gateway # None
                   THEN << "\tgateway " \o gateway >>
                   ELSE << >>))

\* Variant: IPv4 disabled whenever the node asks for it.
disable_ipv4_unconditional(node, static_ips) == node.disable_ipv4

\* The local disable_ipv4 of compose_debian_network_interfaces_file.
disable_ipv4(node, static_ips) ==
    node.disable_ipv4 /\ has_static_ipv6_address(static_ips)

\* Variant: the loop body without its 'auto' line.
interface_stanzas_noauto(interface, mac, no_ipv4, static_ips, gateways) ==
    { (IF ~no_ipv4
       THEN << compose_debian_network_interfaces_ipv4_stanza(interface) >>
       ELSE << >>)
      \o (IF static_ipv6 # None
          THEN << compose_debian_network_interfaces_ipv6_stanza(
                      interface, static_ipv6, gateway) >>
          ELSE << >>) :
        static_ipv6 \in extract_ip(static_ips, mac, 6),
        gateway \in extract_ip(gateways, mac, 6) }

\* The loop body of compose_debian_network_interfaces_file for one
\* interface: the stanzas it appends, one list per possible pair of returns
\* of extract_ip.
interface_stanzas(interface, mac, no_ipv4, static_ips, gateways) ==
    { << "auto " \o interface >>
      \o (IF ~no_ipv4
          THEN << compose_debian_network_interfaces_ipv4_stanza(interface) >>
          ELSE << >>)
      \o (IF static_ipv6 # None
          THEN << compose_debian_network_interfaces_ipv6_stanza(
                      interface, static_ipv6, gateway) >>
          ELSE << >>) :
        static_ipv6 \in extract_ip(static_ips, mac, 6),
        gateway \in extract_ip(gateways, mac, 6) }

RECURSIVE all_interface_stanzas(_, _, _, _)
all_interface_stanzas(interfaces, no_ipv4, static_ips, gateways) ==
    IF interfaces = << >>
    THEN { << >> }
    ELSE { a \o b :
             a \in interface_stanzas(Head(interfaces)[1], Head(interfaces)[2],
                                     no_ipv4, static_ips, gateways),
             b \in all_interface_stanzas(Tail(interfaces), no_ipv4,
                                         static_ips, gateways) }

\* The possible outcomes: the local stanzas at the return statement, and the
\* text returned.
compose_debian_network_interfaces_file(node) ==
    LET static_ips == map_static_ips(node)
        no_ipv4 == disable_ipv4(node, static_ips)
        gateways == map_gateways(node)
    IN  { [stanzas |-> << "auto lo" >> \o rest,
           file |-> join("\n\n", << "auto lo" >> \o rest) \o "\n"] :
            rest \in all_interface_stanzas(extract_network_interfaces(node),
                                           no_ipv4, static_ips, gateways) }

\* ---- the inputs
InterfaceNames == {"eth0", "eth1"}
LshwMacs == { << "a", "0" >>, << "0", "A", " " >> }
NodeMacs == { << "A", "0" >>, << "0", "a" >> }
StaticIPs == {"10.0.0.5", "2001:DB8::5"}
ClusterInterfaces ==
    { [manages_static_range |-> FALSE, router_ip |-> "2001:DB8::1"],
      [manages_static_range |-> TRUE, router_ip |-> ""],
      [manages_static_range |-> TRUE, router_ip |-> "10.0.0.1"],
      [manages_static_range |-> TRUE, router_ip |-> "2001:DB8::1"] }
LshwElements ==
    { [logicalname |-> << n >>, serial |-> << m >>] :
        n \in InterfaceNames, m \in LshwMacs }
    \cup { [logicalname |-> << "eth0" >>, serial |-> << >>] }

Nodes ==
    [ disable_ipv4 : BOOLEAN,
      lshw : SeqsUpTo(LshwElements, MaxInterfaces),
      static : SUBSET (NodeMacs \X StaticIPs),
      cluster_interfaces :
          [NodeMacs -> { {} } \cup { {ci} : ci \in ClusterInterfaces }] ]

\* ---- the calls
call_normalise_mac ==
    /\ preseed.op = "input" /\ preseed.of = "mac"
    /\ preseed' = [op |-> "normalise_mac", mac |-> preseed.mac,
                   result |-> normalise_mac(preseed.mac)]
    /\ UNCHANGED coordination
    /\ UNCHANGED reply

call_compose_debian_network_interfaces_file ==
    /\ preseed.op = "input" /\ preseed.of = "node"
    /\ \E out \in compose_debian_network_interfaces_file(preseed.node) :
          preseed' = [op |-> "compose_debian_network_interfaces_file",
                      node |-> preseed.node, stanzas |-> out.stanzas,
                      result |-> out.file]
    /\ UNCHANGED coordination
    /\ UNCHANGED reply

\* The inputs of one call, in a region that imports nothing.
InitPreseed ==
    /\ env = EmptyEnv
    /\ locked = FALSE
    /\ waiting = << >>
    /\ call = [c \in Callers |-> NoCall]
    /\ job = [c \in Callers |-> NoJob]
    /\ handle = [c \in Callers |-> "none"]
    /\ gpghome = "/var/lib/maas/gnupg"
    /\ raceWinner = 0
    /\ contenders = {}
    /\ first = "none"
    /\ reply = NoReply
    /\ preseed \in { [op |-> "input", of |-> "mac", mac |-> m] :
                       m \in MacSpellings }
                   \cup { [op |-> "input", of |-> "node", node |-> n] :
                            n \in Nodes }

NextPreseed ==
    \/ call_normalise_mac
    \/ call_compose_debian_network_interfaces_file

SpecPreseed == InitPreseed /\ [][NextPreseed]_vars

\* Import coordination together with both read-only requests.
NextServe ==
    \/ \E c \in Callers :
          \/ Arrive(c)
          \/ import_boot_images(c)
          \/ run_import_begin(c)
          \/ run_import_end(c)
          \/ job_completed(c)
          \/ Forget(c)
    \/ list_boot_images
    \/ call_is_import_boot_images_running

SpecServe == InitServe /\ [][NextServe]_vars

\* --------------------------------------------------------------- progress
\* A job in flight is one step ahead at a time (begin, end, completion) and
\* nothing but that step moves it on.  The thread pool runs the job it was
\* handed, import_images ends, and the reactor delivers the result the
\* thread has produced: as long as some job has a step to take, one is taken.
JobStep ==
    \E c \in Callers :
        run_import_begin(c) \/ run_import_end(c) \/ job_completed(c)

Fairness == WF_vars(JobStep)

SpecLive == InitServe /\ [][Next]_vars /\ Fairness

\* ------------------------------------------------- functions, call by call
HostSourceLists == SeqsUpTo({ [url |-> u] : u \in HostURLs }, MaxSources)

call_get_hosts_from_sources ==
    /\ preseed.op = "input" /\ preseed.of = "sources"
    /\ preseed' = [op |-> "get_hosts_from_sources", sources |-> preseed.sources,
                   result |-> get_hosts_from_sources(preseed.sources)]
    /\ UNCHANGED coordination
    /\ UNCHANGED reply

\* ---- list_dns_servers
\* get_dns_server_address(cluster, ipv4=..., ipv6=...) for one family: an
\* address, None, or the exception UnresolvableHost.
UnresolvableHost == "<UnresolvableHost>"

get_dns_server_address(cluster, ipv4, ipv6) ==
    IF ipv4 THEN cluster.ipv4_dns ELSE cluster.ipv6_dns

\* Variant: the list returned as it was collected.
list_dns_servers_unfiltered(node) ==
    LET cluster == node.nodegroup
        try(address) ==
            IF address = UnresolvableHost THEN << >> ELSE << address >>
    IN  (IF ~node.disable_ipv4
         THEN try(get_dns_server_address(cluster, TRUE, FALSE))
         ELSE << >>)
        \o try(get_dns_server_address(cluster, FALSE, TRUE))

\* try(address) is servers.append(...) inside try/except UnresolvableHost.
list_dns_servers(node) ==
    LET cluster == node.nodegroup
        try(address) ==
            IF address = UnresolvableHost THEN << >> ELSE << address >>
        servers ==
            (IF ~node.disable_ipv4
             THEN try(get_dns_server_address(cluster, TRUE, FALSE))
             ELSE << >>)
            \o try(get_dns_server_address(cluster, FALSE, TRUE))
    IN  SelectSeq(servers, LAMBDA dns_server : dns_server # None)

DnsNodes ==
    [ disable_ipv4 : BOOLEAN,
      nodegroup : [ ipv4_dns : {"10.0.0.2", None, UnresolvableHost},
                    ipv6_dns : {"2001:db8::2", None, UnresolvableHost} ] ]

call_list_dns_servers ==
    /\ preseed.op = "input" /\ preseed.of = "dns"
    /\ preseed' = [op |-> "list_dns_servers", node |-> preseed.node,
                   result |-> list_dns_servers(preseed.node)]
    /\ UNCHANGED coordination
    /\ UNCHANGED reply

\* ---- generate_route_entries
\* Variant: the family taken from the router's address.
generate_route_entries_by_router(cluster_interface) ==
    IF cluster_interface.router_ip \in {"", None}
    THEN << >>
    ELSE IF ip_version(IPAddress(cluster_interface.router_ip)) = 4
    THEN << [network |-> "0.0.0.0", netmask |-> "0.0.0.0",
             gateway |-> cluster_interface.router_ip] >>
    ELSE << [network |-> "::", netmask |-> "::",
             gateway |-> cluster_interface.router_ip] >>

\* router_ip is text; unicode() of it is the same text.
generate_route_entries(cluster_interface) ==
    IF cluster_interface.router_ip \in {"", None}
    THEN << >>
    ELSE IF ip_version(IPAddress(cluster_interface.ip)) = 4
    THEN << [network |-> "0.0.0.0", netmask |-> "0.0.0.0",
             gateway |-> cluster_interface.router_ip] >>
    ELSE << [network |-> "::", netmask |-> "::",
             gateway |-> cluster_interface.router_ip] >>

RoutedInterfaces ==
    [ ip : {"10.0.0.5", "2001:DB8::5"},
      router_ip : {"", None, "10.0.0.1", "2001:DB8::1"} ]

call_generate_route_entries ==
    /\ preseed.op = "input" /\ preseed.of = "cluster_interface"
    /\ preseed' = [op |-> "generate_route_entries",
                   cluster_interface |-> preseed.cluster_interface,
                   result |-> generate_route_entries(preseed.cluster_interface)]
    /\ UNCHANGED coordination
    /\ UNCHANGED reply

\* ---- a mapping, filled by add_ip_to_mapping and read by extract_ip
MappingIPs == {None, "", "10.0.0.5", "2001:DB8::5", "2001:db8::6"}

\* A mapping is a defaultdict(set), empty at first.  `added` is history: the
\* (MAC, ip) arguments of the calls made so far; `before` is the mapping as
\* the last call found it.
call_add_ip_to_mapping ==
    /\ \/ preseed.op = "input" /\ preseed.of = "mapping"
       \/ preseed.op = "add_ip_to_mapping"
    /\ \E macaddress \in NodeMacs, ip \in MappingIPs :
          preseed' = [op |-> "add_ip_to_mapping",
                      macaddress |-> macaddress, ip |-> ip,
                      before |-> preseed.mapping,
                      mapping |-> add_ip_to_mapping(preseed.mapping, macaddress, ip),
                      added |-> preseed.added \cup { << macaddress, ip >> }]
    /\ UNCHANGED coordination
    /\ UNCHANGED reply

\* extract_ip(mapping, mac, ip_version) on the mapping as the calls before it
\* left it: what it returns, and the mapping after its mapping[mac].
call_extract_ip ==
    /\ \/ preseed.op = "input" /\ preseed.of = "mapping"
       \/ preseed.op \in {"add_ip_to_mapping", "extract_ip"}
    /\ \E mac \in { normalise_mac(m) : m \in NodeMacs }, version \in {4, 6} :
       \E ip \in extract_ip(preseed.mapping, mac, version) :
          preseed' = [op |-> "extract_ip",
                      mac |-> mac, ip_version |-> version,
                      before |-> preseed.mapping,
                      mapping |-> defaultdict_after_getitem(preseed.mapping, mac),
                      result |-> ip]
    /\ UNCHANGED coordination
    /\ UNCHANGED reply

FunctionInputs ==
    { [op |-> "input", of |-> "mapping", mapping |-> defaultdict, added |-> {}] }
    \cup
    { [op |-> "input", of |-> "sources", sources |-> s] : s \in HostSourceLists }
    \cup { [op |-> "input", of |-> "dns", node |-> n] : n \in DnsNodes }
    \cup { [op |-> "input", of |-> "cluster_interface", cluster_interface |-> ci] :
             ci \in RoutedInterfaces }

\* The arguments of one call, in a region that imports nothing.
InitFunctions ==
    /\ env = EmptyEnv
    /\ locked = FALSE
    /\ waiting = << >>
    /\ call = [c \in Callers |-> NoCall]
    /\ job = [c \in Callers |-> NoJob]
    /\ handle = [c \in Callers |-> "none"]
    /\ gpghome = "/var/lib/maas/gnupg"
    /\ raceWinner = 0
    /\ contenders = {}
    /\ first = "none"
    /\ reply = NoReply
    /\ preseed \in FunctionInputs

NextFunctions ==
    \/ call_get_hosts_from_sources
    \/ call_list_dns_servers
    \/ call_generate_route_entries
    \/ call_add_ip_to_mapping
    \/ call_extract_ip

SpecFunctions == InitFunctions /\ [][NextFunctions]_vars

\* ------------------------------------------------------------------ claims
Fired == {"succeeded", "failed"}

\* e1 and e2 agree on variable v: absent in both, or set to the same value.
SameVar(e1, e2, v) ==
    /\ v \in DOMAIN e1 <=> v \in DOMAIN e2
    /\ v \in DOMAIN e1 => e1[v] = e2[v]

Loopback == {"localhost", "127.0.0.1", "::1"}

NoDuplicates(l) == \A i, j \in DOMAIN l : l[i] = l[j] => i = j

\* C1: in every reachable state at most one import job is in flight, so the
\* image store never has two writers.
C1_AtMostOneJobInFlight ==
    /\ Cardinality(JobsInFlight) <= 1
    /\ Cardinality({ c \in Callers : job[c].pc = "importing" }) <= 1

\* A job writes the store while another trigger has come and gone.
C1_Witness ==
    \E c, d \in Callers :
        /\ c # d
        /\ job[c].pc = "importing"
        /\ call[d].st = "returned"

\* C2: of the calls that were pending together when the lock was free, the
\* one dispatched first takes the lock and returns the Deferred; every other
\* one dispatched while that job is in flight returns None.
C2_ExactlyOneWins ==
    /\ \A d \in contenders :
          call[d].st = "returned" =>
              /\ call[d].ret = "Deferred" <=> d = raceWinner
              /\ call[d].ret = "None" <=> d # raceWinner
    /\ raceWinner # 0 => call[raceWinner].ret = "Deferred"

\* Two calls raced for the free lock; one won, the other was skipped.
C2_Witness ==
    \E c, d \in contenders :
        /\ c # d
        /\ c = raceWinner
        /\ call[d].st = "returned"
        /\ call[d].ret = "None"

\* C3: no queuing.  Nothing ever waits on the lock, and a call dispatched
\* while the lock was held has no job in any stage and no Deferred: every job
\* belongs to a call that found the lock free.
C3_NoQueuing ==
    /\ waiting = << >>
    /\ \A c \in Callers :
          call[c].st = "returned" /\ call[c].held =>
              job[c].pc = "none" /\ handle[c] = "none"
    /\ \A c \in Callers :
          job[c].pc # "none" => call[c].st = "returned" /\ ~call[c].held

\* The running job has finished and the call it made skip still has no job.
C3_Witness ==
    \E c, d \in Callers :
        /\ c # d
        /\ call[d].st = "returned" /\ call[d].held
        /\ handle[c] \in Fired
        /\ ~locked

\* C4: when a job finishes, by a return or by an exception, the lock is free
\* in the state that follows, and a call dispatched when no job is unfinished
\* starts a job.
C4_FinishReleasesLock ==
    [][ /\ \A c \in Callers :
            handle[c] = "pending" /\ handle'[c] \in Fired
                => ~is_import_boot_images_running'
        /\ \A d \in Callers :
            /\ \A c \in Callers : handle[c] # "pending"
            /\ call[d].st = "arrived"
            /\ call'[d].st = "returned"
            => call'[d].ret = "Deferred" /\ job'[d].pc = "scheduled" ]_vars

\* A job failed, and the next call has started its own job.
C4_Witness ==
    \E c, d \in Callers :
        /\ c # d
        /\ handle[c] = "failed"
        /\ call[d].ret = "Deferred"
        /\ job[d].pc = "scheduled"

\* C5: is_import_boot_images_running() is true exactly while a job is in
\* flight (started, and its completion not yet delivered).
C5_RunningIffJobInFlight ==
    is_import_boot_images_running <=> JobsInFlight # {}

\* The query is true in the middle of a job.
C5_Witness ==
    \E c \in Callers :
        job[c].pc = "importing" /\ is_import_boot_images_running

\* C6: a call dispatched while the lock is held returns None and changes
\* nothing: not the lock, the queue, the environment, any job or any Deferred.
C6_SkipHasNoEffect ==
    [][ \A c \in Callers :
            locked /\ call[c].st = "arrived" /\ call'[c].st = "returned"
            => /\ call'[c].ret = "None"
               /\ handle'[c] = "none"
               /\ UNCHANGED << locked, waiting, env, job, handle >> ]_vars

\* A skipped call, with the job that made it skip still scheduled.
C6_Witness ==
    \E c, d \in Callers :
        /\ job[c].pc = "scheduled"
        /\ call[d].st = "returned" /\ call[d].held /\ call[d].ret = "None"

\* C7: idle by default.  As long as no call has been dispatched the query is
\* false, and the first call dispatched is never skipped.
C7_IdleByDefault ==
    /\ first = "none" => ~is_import_boot_images_running
    /\ first # "None"

\* The first call has started a job, with sources.
C7_Witness ==
    \E c \in Callers :
        /\ first = "Deferred"
        /\ job[c].pc = "scheduled" /\ job[c].sources # << >>
        /\ \A d \in Callers \ {c} : call[d].st = "idle"

\* C8: once import_images has ended, by a return or by an exception, every
\* variable the job set has the value it had before the job, and is absent if
\* it was absent.
C8_EnvironmentRestored ==
    \A c \in Callers :
        job[c].pc \in {"returned", "raised"} =>
            \A v \in DOMAIN job[c].variables : SameVar(env, job[c].pre_env, v)

\* A job that raised had set a proxy variable that was absent before.
C8_Witness ==
    \E c \in Callers :
        /\ job[c].pc = "raised"
        /\ "http_proxy" \in DOMAIN job[c].variables
        /\ "http_proxy" \notin DOMAIN job[c].pre_env

\* C9: the no_proxy value lists exactly the loopback hosts and the hosts of
\* the sources, each host once, whatever the order of the sources.
C9_EachHostOnce ==
    \A c \in Callers :
        job[c].pc = "importing" =>
            LET l == job[c].no_proxy_hosts
                srcs == job[c].sources
            IN  /\ env["no_proxy"] = join(",", l)
                /\ Range(l) = Loopback \cup
                       ({ urlparse_hostname(srcs[i].url) : i \in DOMAIN srcs } \ {None})
                /\ \A p \in Perms(DOMAIN srcs) :
                       get_hosts_from_sources([i \in DOMAIN srcs |-> srcs[p[i]]])
                           = get_hosts_from_sources(srcs)
                /\ NoDuplicates(l)

\* C10: a job with no sources and no proxies does not raise, overrides
\* neither http_proxy nor https_proxy, and runs import_images with no_proxy
\* set to the three loopback hosts.
C10_EmptySources ==
    \A c \in Callers :
        /\ job[c].pc \in InFlight
        /\ job[c].sources = << >>
        /\ job[c].http_proxy = None
        /\ job[c].https_proxy = None
        => /\ job[c].pc # "raised"
           /\ job[c].pc = "importing" =>
                /\ DOMAIN job[c].variables = {"GNUPGHOME", "no_proxy"}
                /\ SameVar(env, job[c].pre_env, "http_proxy")
                /\ SameVar(env, job[c].pre_env, "https_proxy")
                /\ "no_proxy" \in DOMAIN env
                /\ env["no_proxy"] = "localhost,127.0.0.1,::1"

\* Such a job has run to its end.
C10_Witness ==
    \E c \in Callers :
        /\ job[c].pc = "returned"
        /\ job[c].sources = << >>
        /\ job[c].http_proxy = None
        /\ job[c].https_proxy = None
        /\ "no_proxy" \notin DOMAIN env

\* C11: the trigger does not wait for the transfer.  A call that starts a job
\* returns with the job still to be run and its Deferred pending, and while a
\* job is in flight a listing, the running query and a further
\* import_boot_images call can each be served.
C11_TriggerDoesNotBlock ==
    /\ [][ \A c \in Callers :
              /\ call[c].st = "arrived"
              /\ call'[c].st = "returned"
              /\ call'[c].ret = "Deferred"
              => job'[c].pc = "scheduled" /\ handle'[c] = "pending" ]_vars
    /\ [](JobsInFlight # {} =>
              /\ ENABLED list_boot_images
              /\ ENABLED call_is_import_boot_images_running
              /\ \A d \in Callers :
                    call[d].st = "arrived" => ENABLED import_boot_images(d))

\* During one import a listing was served and a second trigger returned.
C11_Witness ==
    \E c, d \in Callers :
        /\ job[c].pc = "importing"
        /\ call[c].st = "returned" /\ call[c].ret = "Deferred"
        /\ reply.op = "list" /\ reply.held
        /\ call[d].st = "returned" /\ call[d].held

\* C14: list_boot_images can be served in every state, idle or running, and
\* a listing changes nothing of the import coordination: not the lock, not
\* the environment, no job.
C14_ListingIndependent ==
    /\ [](ENABLED list_boot_images)
    /\ [][ reply' # reply /\ reply'.op = "list"
              => /\ UNCHANGED coordination
                 /\ reply'.result \in Disks ]_vars

\* An empty listing was served while an import held the lock.
C14_Witness ==
    /\ reply.op = "list" /\ reply.held /\ reply.result = {}
    /\ \E c \in Callers : job[c].pc = "importing"

\* C19: the running query can be evaluated in every state, answers with the
\* state of the lock, and changes neither the lock, the jobs nor the
\* environment.
C19_QueryIsPure ==
    /\ [](ENABLED call_is_import_boot_images_running)
    /\ [][ reply' # reply /\ reply'.op = "running"
              => /\ UNCHANGED coordination
                 /\ reply'.result = locked ]_vars

\* The query answered true in the middle of a job, and the job went on.
C19_Witness ==
    /\ reply.op = "running" /\ reply.result = TRUE
    /\ \E c \in Callers : job[c].pc = "returned"

\* C12: when the credential home does not resolve, the error comes out of
\* import_boot_images itself: the lock is never taken, no job is ever
\* scheduled and no Deferred ever carries the error.
C12_ConfigErrorSynchronous ==
    gpghome = Unresolvable =>
        /\ ~locked
        /\ \A c \in Callers : job[c].pc = "none" /\ handle[c] = "none"

\* C13: when a job's result is delivered, the Deferred fails if import_images
\* raised, and succeeds only if import_images returned.
C13_EngineErrorNotSwallowed ==
    [][ \A c \in Callers :
            handle[c] = "pending" /\ handle'[c] \in Fired
            => /\ job[c].engine = "raised" => handle'[c] = "failed"
               /\ handle'[c] = "succeeded" => job[c].engine = "returned" ]_vars

\* A Deferred has failed, and the lock is free again.
C13_Witness ==
    \E c \in Callers :
        /\ handle[c] = "failed"
        /\ call[c].ret = "Deferred"
        /\ job[c].pc = "none"

\* C20: while import_images runs, GNUPGHOME is the credential home, no_proxy
\* is the host set joined by commas (each host once, in some order), and
\* http_proxy and https_proxy carry the caller's value when one was given
\* and their pre-job value otherwise.
C20_OverridesDuringJob ==
    \A c \in Callers :
        job[c].pc = "importing" =>
            /\ "GNUPGHOME" \in DOMAIN env /\ env["GNUPGHOME"] = gpghome
            /\ "no_proxy" \in DOMAIN env
            /\ env["no_proxy"] \in
                  { join(",", p) :
                      p \in Perms(Loopback \cup get_hosts_from_sources(job[c].sources)) }
            /\ IF job[c].http_proxy # None
               THEN "http_proxy" \in DOMAIN env /\ env["http_proxy"] = job[c].http_proxy
               ELSE SameVar(env, job[c].pre_env, "http_proxy")
            /\ IF job[c].https_proxy # None
               THEN "https_proxy" \in DOMAIN env /\ env["https_proxy"] = job[c].https_proxy
               ELSE SameVar(env, job[c].pre_env, "https_proxy")

\* ---- reading a composed interfaces file
Composed == preseed.op = "compose_debian_network_interfaces_file"

AddressTexts ==
    LET given == StaticIPs \cup { ci.router_ip : ci \in ClusterInterfaces }
    IN  (given \cup { IPAddress(ip) : ip \in given \ {""} }) \ {""}

DhcpStanza(name) == "iface " \o name \o " inet dhcp"

Inet6Stanza(name, ip, gateway) ==
    "iface " \o name \o " inet6 static\n\tnetmask 64\n\taddress " \o ip
    \o (IF gateway = None THEN "" ELSE "\n\tgateway " \o gateway)

Inet6Stanzas(name) ==
    { Inet6Stanza(name, ip, gateway) :
        ip \in AddressTexts, gateway \in AddressTexts \cup {None} }

\* Where the 'auto' lines of the interfaces stand, and the k-th interface's
\* part of the file: its 'auto' line and what follows up to the next one.
AutoPositions(st) ==
    { i \in DOMAIN st : i > 1 /\ st[i] \in { "auto " \o n : n \in InterfaceNames } }

WellFormed(st, interfaces) == Cardinality(AutoPositions(st)) = Len(interfaces)

Block(st, k) ==
    LET P == AutoPositions(st)
        start == CHOOSE i \in P : Cardinality({ j \in P : j < i }) = k - 1
        later == { j \in P : j > start }
        end == IF later = {}
               THEN Len(st)
               ELSE (CHOOSE j \in later : \A l \in later : j <= l) - 1
    IN  SubSeq(st, start, end)

V6(ips) == { ip \in ips : ip_version(ip) = 6 }

\* C15: every interface of the file lacks its DHCPv4 stanza exactly when the
\* node has disable_ipv4 set and some static IP address row of the node, on
\* whichever MAC, is an IPv6 address.
C15_Ipv4DisabledOnlyWithStaticIpv6 ==
    Composed =>
        LET node == preseed.node
            interfaces == extract_network_interfaces(node)
            st == preseed.stanzas
            static_ipv6 == \E row \in node.static :
                              ip_version(IPAddress(row[2])) = 6
        IN  /\ WellFormed(st, interfaces)
            /\ \A k \in DOMAIN interfaces :
                  DhcpStanza(interfaces[k][1]) \notin Range(Block(st, k))
                  <=> (node.disable_ipv4 /\ static_ipv6)

\* IPv4 is off for an interface whose own MAC has no static IPv6 address.
C15_Witness ==
    /\ Composed
    /\ preseed.node.disable_ipv4
    /\ preseed.stanzas = << "auto lo", "auto eth1" >>
    /\ preseed.node.static = { << << "0", "a" >>, "2001:DB8::5" >> }

\* C16: an interface's part of the file holds an inet6 static stanza exactly
\* when map_static_ips has an IPv6 address for its MAC; there is one such
\* stanza, made of one of those addresses and of an IPv6 gateway that
\* map_gateways has for the same MAC, without a gateway line when it has
\* none.
C16_Inet6StanzaFromMappings ==
    Composed =>
        LET node == preseed.node
            interfaces == extract_network_interfaces(node)
            st == preseed.stanzas
        IN  /\ WellFormed(st, interfaces)
            /\ \A k \in DOMAIN interfaces :
                  LET name == interfaces[k][1]
                      mac == interfaces[k][2]
                      block == Block(st, k)
                      found == { i \in DOMAIN block : block[i] \in Inet6Stanzas(name) }
                      static == V6(defaultdict_getitem(map_static_ips(node), mac))
                      routers == V6(defaultdict_getitem(map_gateways(node), mac))
                  IN  /\ found # {} <=> static # {}
                      /\ Cardinality(found) <= 1
                      /\ \A i \in found :
                            \E ip \in static :
                            \E gateway \in (IF routers = {} THEN {None} ELSE routers) :
                                block[i] = Inet6Stanza(name, ip, gateway)

\* One interface with a static IPv6 address and an IPv6 gateway, another
\* with neither.
C16_Witness ==
    /\ Composed
    /\ preseed.stanzas =
          << "auto lo",
             "auto eth0", "iface eth0 inet dhcp",
             "iface eth0 inet6 static\n\tnetmask 64\n\taddress 2001:db8::5\n\tgateway 2001:db8::1",
             "auto eth1", "iface eth1 inet dhcp" >>

\* C17: the file is its stanzas joined by blank lines; the first is
\* 'auto lo', and then each extracted interface, in the order of extraction,
\* has its one 'auto' line followed by nothing but its own iface stanzas.
C17_AutoLines ==
    Composed =>
        LET interfaces == extract_network_interfaces(preseed.node)
            st == preseed.stanzas
        IN  /\ preseed.result = join("\n\n", st) \o "\n"
            /\ st[1] = "auto lo"
            /\ WellFormed(st, interfaces)
            /\ IF interfaces = << >> THEN Len(st) = 1 ELSE 2 \in AutoPositions(st)
            /\ \A k \in DOMAIN interfaces :
                  LET name == interfaces[k][1]
                      block == Block(st, k)
                  IN  /\ block[1] = "auto " \o name
                      /\ \A i \in 2..Len(block) :
                            block[i] \in {DhcpStanza(name)} \cup Inet6Stanzas(name)

\* Two interfaces, the element without a MAC address between them left out.
C17_Witness ==
    /\ Composed
    /\ Len(preseed.node.lshw) = 2
    /\ preseed.result = "auto lo\n\nauto eth1\n\niface eth1 inet dhcp\n\nauto eth0\n\niface eth0 inet dhcp\n"

\* ---- spellings of a MAC address
\* A spelling without some of its leading and trailing whitespace.
Cores(m) ==
    { SubSeq(m, ij[1], ij[2]) :
        ij \in { ij \in (1..(Len(m) + 1)) \X (0..Len(m)) :
                    /\ ij[1] <= ij[2] + 1
                    /\ \A k \in DOMAIN m :
                          k < ij[1] \/ k > ij[2] => m[k] \in Whitespace } }

SameLetters(c1, c2) ==
    /\ Len(c1) = Len(c2)
    /\ \A i \in DOMAIN c1 : c1[i] = c2[i] \/ {c1[i], c2[i]} = {"a", "A"}

\* The two spellings differ in letter case and surrounding whitespace only.
SameSpelling(m1, m2) ==
    \E c1 \in Cores(m1) : \E c2 \in Cores(m2) : SameLetters(c1, c2)

\* C18: normalising a normalised MAC changes nothing, and every spelling
\* that differs from the given one only in letter case or in leading and
\* trailing whitespace normalises to the same value.
C18_NormaliseMac ==
    preseed.op = "normalise_mac" =>
        /\ normalise_mac(preseed.result) = preseed.result
        /\ \A other \in MacSpellings :
              SameSpelling(preseed.mac, other)
              => normalise_mac(other) = preseed.result

C18_Witness ==
    /\ preseed.op = "normalise_mac"
    /\ preseed.mac = << " ", "A", "0" >>
    /\ preseed.result = << "a", "0" >>
    /\ SameSpelling(preseed.mac, << "a", "0", " " >>)

\* ---- hosts of the sources
HasHostname(url) == urlparse_hostname(url) \notin {None, ""}

\* C21: get_hosts_from_sources returns the hostnames of the source URLs that
\* have one, and nothing else: no empty string and no None.
C21_HostsOfSources ==
    preseed.op = "get_hosts_from_sources" =>
        /\ preseed.result =
              { urlparse_hostname(preseed.sources[i].url) :
                  i \in { j \in DOMAIN preseed.sources :
                            HasHostname(preseed.sources[j].url) } }
        /\ preseed.result \cap {None, ""} = {}

\* C22: the environment is changed only by a job entering its overrides,
\* which it does holding the lock and alone, and by that job leaving them,
\* which puts back what it found; so whenever the lock is free the
\* environment is the baseline, and it is already back when the job's result
\* is delivered and the lock released.
C22_OverridesNeverOutliveJob ==
    /\ [](/\ Cardinality({ c \in Callers : job[c].pc = "importing" }) <= 1
          /\ ~locked => env \in BaselineEnvs
          /\ \A c \in Callers :
                /\ job[c].pc = "importing" => locked /\ raceWinner = c
                /\ job[c].pc \in {"returned", "raised"} =>
                      locked /\ env = job[c].pre_env)
    /\ [][ env' # env =>
             \E c \in Callers :
                \/ /\ job[c].pc = "scheduled" /\ job'[c].pc = "importing"
                   /\ job'[c].pre_env = env
                   /\ env \in BaselineEnvs
                \/ /\ job[c].pc = "importing"
                   /\ job'[c].pc \in {"returned", "raised"}
                   /\ env' = job[c].pre_env ]_vars
    /\ [][ locked /\ ~locked' => env' = env /\ env \in BaselineEnvs ]_vars

\* A job that had overridden all four variables has put them back and still
\* holds the lock.
C22_Witness ==
    \E c \in Callers :
        /\ job[c].pc = "returned"
        /\ locked
        /\ DOMAIN job[c].variables = EnvVars
        /\ DOMAIN job[c].pre_env = EnvVars
        /\ env = job[c].pre_env

\* C23: whenever the query is true, or a job has ended and its result is not
\* delivered yet, a state follows in which the query is false and no job is
\* in flight.
C23_RunningLeadsToIdle ==
    (is_import_boot_images_running
        \/ \E c \in Callers : job[c].pc \in {"returned", "raised"})
    ~> (~is_import_boot_images_running /\ JobsInFlight = {})

\* Idle again after a job that raised.
C23_Witness ==
    /\ ~is_import_boot_images_running
    /\ JobsInFlight = {}
    /\ \E c \in Callers : handle[c] = "failed" /\ call[c].st = "returned"
    /\ \A c \in Callers : call[c].st # "arrived"

\* C24: the lock goes from held to free only in the step that delivers the
\* result of a job that has ended; a job that has not ended is never
\* dropped, and the environment of an importing job changes only when its
\* import_images ends; a trigger, query or listing served while a job is in
\* flight changes neither the lock, nor any job, nor the environment.
C24_NoCancellation ==
    [][ /\ locked /\ ~locked' =>
              \E c \in Callers :
                  /\ job[c].pc \in {"returned", "raised"}
                  /\ job'[c].pc = "none"
                  /\ handle[c] = "pending" /\ handle'[c] \in Fired
        /\ \A c \in Callers :
              /\ job[c].pc \in {"scheduled", "importing"} => job'[c].pc # "none"
              /\ job[c].pc = "importing" /\ env' # env =>
                    job'[c].pc \in {"returned", "raised"}
        /\ /\ JobsInFlight # {}
           /\ \/ reply' # reply
              \/ \E d \in Callers :
                    call[d].st = "arrived" /\ call'[d].st = "returned"
           => UNCHANGED << locked, waiting, job, handle, env >> ]_vars

\* A trigger was skipped and the query answered while the job is importing.
C24_Witness ==
    \E c, d \in Callers :
        /\ job[c].pc = "importing"
        /\ call[d].st = "returned" /\ call[d].held /\ call[d].ret = "None"
        /\ reply.op = "running" /\ reply.result

\* C25: a job calls import_images once, when it begins importing, with the
\* sources its call was given; the sources of a job in flight never change;
\* a job whose import_images raised only has its result delivered; and a job
\* starts only in the dispatch of its caller's call.
C25_EngineInvokedOnce ==
    /\ [](\A c \in Callers :
            /\ Len(job[c].invoked) <= 1
            /\ job[c].pc = "importing" \/ job[c].engine # "-"
                  <=> job[c].invoked = << job[c].sources >>)
    /\ [][ \A c \in Callers :
            /\ job[c].pc \in InFlight /\ job'[c].pc \in InFlight
                  => job'[c].sources = job[c].sources
            /\ job[c].engine = "raised"
                  => job'[c] = job[c] \/ job'[c] = NoJob
            /\ job[c].pc = "none" /\ job'[c].pc # "none"
                  => call[c].st = "arrived" /\ call'[c].ret = "Deferred" ]_vars

\* import_images raised on two different sources, called once with them.
C25_Witness ==
    \E c \in Callers :
        /\ job[c].engine = "raised"
        /\ Len(job[c].sources) = 2
        /\ job[c].sources[1] # job[c].sources[2]
        /\ job[c].invoked = << job[c].sources >>

\* C26: in a process whose credential home does not resolve, the environment
\* stays the one the process started with, no job sets a variable or calls
\* import_images, every job that was started ends raised, and the delivery
\* of its failure frees the lock.
C26_GpghomeFailureInJob ==
    /\ [](gpghome = Unresolvable =>
            /\ env \in { e \in BaselineEnvs :
                           "http_proxy" \in DOMAIN e /\ "GNUPGHOME" \notin DOMAIN e }
            /\ \A c \in Callers :
                  /\ job[c].pc \in {"none", "scheduled", "raised"}
                  /\ job[c].variables = EmptyEnv
                  /\ job[c].engine = "-" /\ job[c].invoked = << >>
                  /\ handle[c] # "succeeded")
    /\ [][ gpghome = Unresolvable =>
             \A c \in Callers :
                job[c].pc = "raised" /\ job'[c].pc # "raised"
                => /\ job'[c].pc = "none"
                   /\ handle'[c] = "failed"
                   /\ ~locked' ]_vars

\* The failure was delivered, the lock is free, and the next call has been
\* dispatched and has started a job of its own.
C26_Witness ==
    /\ gpghome = Unresolvable
    /\ \E c, d \in Callers :
          /\ c # d
          /\ handle[c] = "failed" /\ job[c].pc = "none"
          /\ call[d].ret = "Deferred" /\ ~call[d].held
          /\ job[d].pc = "raised"

\* ---- DNS servers and routes
Resolved(address) == address \notin {None, UnresolvableHost}

\* C27: the list is the IPv4 server, if IPv4 is not disabled for the node
\* and an address resolved, followed by the IPv6 server, if one resolved;
\* None is never in it, and an unresolvable family is left out.
C27_ListDnsServers ==
    preseed.op = "list_dns_servers" =>
        LET node == preseed.node
            ipv4_dns == node.nodegroup.ipv4_dns
            ipv6_dns == node.nodegroup.ipv6_dns
        IN  /\ preseed.result =
                  (IF ~node.disable_ipv4 /\ Resolved(ipv4_dns)
                   THEN << ipv4_dns >> ELSE << >>)
                  \o (IF Resolved(ipv6_dns) THEN << ipv6_dns >> ELSE << >>)
            /\ None \notin Range(preseed.result)
            /\ UnresolvableHost \notin Range(preseed.result)

\* IPv4 resolves to nothing and IPv6 to an address.
C27_Witness ==
    /\ preseed.op = "list_dns_servers"
    /\ ~preseed.node.disable_ipv4
    /\ preseed.node.nodegroup.ipv4_dns = None
    /\ preseed.result = << "2001:db8::2" >>

\* C28: no route without a router; otherwise one route, to the router, whose
\* network and netmask are '0.0.0.0' if the interface's own address is an
\* IPv4 address and '::' if it is an IPv6 address.
C28_RouteEntries ==
    preseed.op = "generate_route_entries" =>
        LET cluster_interface == preseed.cluster_interface
            routes == preseed.result
            any == IF cluster_interface.ip \in {"10.0.0.5"} THEN "0.0.0.0" ELSE "::"
        IN  IF cluster_interface.router_ip \in {"", None}
            THEN routes = << >>
            ELSE /\ Len(routes) = 1
                 /\ DOMAIN routes[1] = {"network", "netmask", "gateway"}
                 /\ routes[1].gateway = cluster_interface.router_ip
                 /\ routes[1].network = any
                 /\ routes[1].netmask = any

\* An IPv4 interface whose router has an IPv6 address.
C28_Witness ==
    /\ preseed.op = "generate_route_entries"
    /\ preseed.cluster_interface.ip = "10.0.0.5"
    /\ preseed.result = << [network |-> "0.0.0.0", netmask |-> "0.0.0.0",
                            gateway |-> "2001:DB8::1"] >>

\* ---- mappings
\* The addresses given for a normalised MAC in the calls made so far.
AddedFor(added, mac) ==
    { IPAddress(pair[2]) :
        pair \in { p \in added : normalise_mac(p[1]) = mac /\ p[2] \notin {None, ""} } }

\* C29: a call with ip None or '' leaves the mapping as it was, creating no
\* key; any other call adds the address to the set under the normalised MAC
\* and touches nothing else; and after any sequence of calls the mapping has
\* a key for exactly the MACs an address was given for, holding exactly the
\* addresses given for it.
C29_AddIpToMapping ==
    preseed.op = "add_ip_to_mapping" =>
        LET before == preseed.before
            mapping == preseed.mapping
            mac == normalise_mac(preseed.macaddress)
        IN  /\ preseed.ip \in {None, ""} => mapping = before
            /\ preseed.ip \notin {None, ""} =>
                  /\ DOMAIN mapping = DOMAIN before \cup {mac}
                  /\ mapping[mac] =
                        defaultdict_getitem(before, mac) \cup {IPAddress(preseed.ip)}
                  /\ \A other \in DOMAIN before \ {mac} :
                        mapping[other] = before[other]
            /\ DOMAIN mapping =
                  { k \in { normalise_mac(m) : m \in NodeMacs } :
                       AddedFor(preseed.added, k) # {} }
            /\ \A m \in NodeMacs :
                  defaultdict_getitem(mapping, normalise_mac(m))
                      = AddedFor(preseed.added, normalise_mac(m))

\* A second address for a MAC, after a call with None for the other MAC.
C29_Witness ==
    /\ preseed.op = "add_ip_to_mapping"
    /\ << << "0", "a" >>, None >> \in preseed.added
    /\ preseed.macaddress = << "A", "0" >>
    /\ DOMAIN preseed.mapping = { << "a", "0" >> }
    /\ preseed.mapping[<< "a", "0" >>] = {"10.0.0.5", "2001:db8::5"}
    /\ preseed.before # preseed.mapping

=============================================================================
